---- MODULE Spec2Model ----
(***************************************************************************)
(* Model of the reset-server relay: the two variants of the reset server   *)
(* (src/index.js, called "index", and src/unnamed/part_000, whose header   *)
(* calls itself "index.js (fixed)", called "fixed"), the avatar and rooms  *)
(* routers (src/routes/avatar.js) and the delete-image router              *)
(* (src/cloudinary-delete-route.js).                                       *)
(*                                                                         *)
(* A request is a handler invocation.  It runs from one await to the next  *)
(* in one step; what a collaborator answers to an outbound call is chosen  *)
(* by the environment when the await resumes.                              *)
(***************************************************************************)
EXTENDS Integers, Sequences, FiniteSets, TLC

(***************************************************************************)
(* JavaScript values, as far as the handlers look at them.                 *)
(***************************************************************************)
Undefined == [t |-> "undefined"]
Null      == [t |-> "null"]
Bool(b)   == [t |-> "boolean", b |-> b]
Str(s)    == [t |-> "string", s |-> s]
Num(n)    == [t |-> "number", n |-> n]
Arr(xs)   == [t |-> "array", a |-> xs]
Obj(kvs)  == [t |-> "object", o |-> kvs]

\* Truthiness of a value: what `!x` and `a || b` test.
Truthy(x) ==
  CASE x.t = "undefined" -> FALSE
    [] x.t = "null"      -> FALSE
    [] x.t = "boolean"   -> x.b
    [] x.t = "string"    -> x.s /= ""
    [] x.t = "number"    -> x.n /= 0
    [] OTHER             -> TRUE

\* a || b
Or(a, b) == IF Truthy(a) THEN a ELSE b

\* x === true
IsTrue(x) == x.t = "boolean" /\ x.b

\* x === "s" for a string literal s
IsStr(x, s) == x.t = "string" /\ x.s = s

\* obj.key for any value obj that is not null or undefined: the last
\* property of that name of an object, the length of a string or an array,
\* undefined otherwise.
RECURSIVE Lookup(_, _, _)
Lookup(kvs, key, i) ==
  IF i = 0 THEN Undefined
  ELSE IF kvs[i].k = key THEN kvs[i].val
  ELSE Lookup(kvs, key, i - 1)

Prop(x, key) ==
  CASE x.t = "object" -> Lookup(x.o, key, Len(x.o))
    [] x.t = "array" /\ key = "length" -> Num(Len(x.a))
    [] x.t = "string" /\ key = "length" -> Num(Len(x.s))
    [] OTHER -> Undefined

(***************************************************************************)
(* JSON.parse on a text.  The grammar covered: white space, the literals   *)
(* true, false and null, unsigned integers, strings with backslash         *)
(* escapes, arrays and objects.  A result is [ok, val, next].              *)
(***************************************************************************)
Ch(s, i) == IF i >= 1 /\ i <= Len(s) THEN SubSeq(s, i, i) ELSE ""

WhiteSpace == {" ", "\n", "\t", "\r"}
Digits == {"0", "1", "2", "3", "4", "5", "6", "7", "8", "9"}

DigitVal(c) ==
  CASE c = "0" -> 0 [] c = "1" -> 1 [] c = "2" -> 2 [] c = "3" -> 3
    [] c = "4" -> 4 [] c = "5" -> 5 [] c = "6" -> 6 [] c = "7" -> 7
    [] c = "8" -> 8 [] c = "9" -> 9

\* Whether the text s holds the word w at position i.
HasAt(s, i, w) == i + Len(w) - 1 <= Len(s) /\ SubSeq(s, i, i + Len(w) - 1) = w

RECURSIVE SkipWs(_, _)
SkipWs(s, i) == IF Ch(s, i) \in WhiteSpace THEN SkipWs(s, i + 1) ELSE i

Fail == [ok |-> FALSE, val |-> Undefined, next |-> 0]
Got(v, n) == [ok |-> TRUE, val |-> v, next |-> n]

\* The characters of a string literal from position i (after the opening
\* quote) to its closing quote.
RECURSIVE ParseChars(_, _, _)
ParseChars(s, i, acc) ==
  LET c == Ch(s, i) IN
  IF c = "" THEN Fail
  ELSE IF c = "\"" THEN Got(Str(acc), i + 1)
  ELSE IF c = "\\" THEN
    (IF Ch(s, i + 1) \in {"\"", "\\", "/"}
       THEN ParseChars(s, i + 2, acc \o Ch(s, i + 1))
       ELSE Fail)
  ELSE ParseChars(s, i + 1, acc \o c)

RECURSIVE ParseDigits(_, _, _)
ParseDigits(s, i, acc) ==
  IF Ch(s, i) \in Digits
    THEN ParseDigits(s, i + 1, 10 * acc + DigitVal(Ch(s, i)))
    ELSE Got(Num(acc), i)

RECURSIVE ParseValue(_, _), ParseElements(_, _, _), ParseMembers(_, _, _)
ParseValue(s, i0) ==
  LET i == SkipWs(s, i0)
      c == Ch(s, i)
  IN CASE c = "t" -> IF HasAt(s, i, "true") THEN Got(Bool(TRUE), i + 4) ELSE Fail
       [] c = "f" -> IF HasAt(s, i, "false") THEN Got(Bool(FALSE), i + 5) ELSE Fail
       [] c = "n" -> IF HasAt(s, i, "null") THEN Got(Null, i + 4) ELSE Fail
       [] c = "\"" -> ParseChars(s, i + 1, "")
       [] c \in Digits ->
            IF c = "0" /\ Ch(s, i + 1) \in Digits THEN Fail ELSE ParseDigits(s, i, 0)
       [] c = "[" ->
            IF Ch(s, SkipWs(s, i + 1)) = "]"
              THEN Got(Arr(<<>>), SkipWs(s, i + 1) + 1)
              ELSE ParseElements(s, i + 1, <<>>)
       [] c = "{" ->
            IF Ch(s, SkipWs(s, i + 1)) = "}"
              THEN Got(Obj(<<>>), SkipWs(s, i + 1) + 1)
              ELSE ParseMembers(s, i + 1, <<>>)
       [] OTHER -> Fail

ParseElements(s, i, acc) ==
  LET e == ParseValue(s, i) IN
  IF ~e.ok THEN Fail
  ELSE LET j == SkipWs(s, e.next) IN
       CASE Ch(s, j) = "," -> ParseElements(s, j + 1, Append(acc, e.val))
         [] Ch(s, j) = "]" -> Got(Arr(Append(acc, e.val)), j + 1)
         [] OTHER -> Fail

ParseMembers(s, i0, acc) ==
  LET i == SkipWs(s, i0) IN
  IF Ch(s, i) /= "\"" THEN Fail
  ELSE LET k == ParseChars(s, i + 1, "") IN
       IF ~k.ok THEN Fail
       ELSE LET c == SkipWs(s, k.next) IN
            IF Ch(s, c) /= ":" THEN Fail
            ELSE LET e == ParseValue(s, c + 1) IN
                 IF ~e.ok THEN Fail
                 ELSE LET j == SkipWs(s, e.next)
                          kv == [k |-> k.val.s, val |-> e.val]
                      IN CASE Ch(s, j) = "," -> ParseMembers(s, j + 1, Append(acc, kv))
                           [] Ch(s, j) = "}" -> Got(Obj(Append(acc, kv)), j + 1)
                           [] OTHER -> Fail

\* JSON.parse(text): [ok |-> FALSE] stands for the SyntaxError it throws.
JSONParse(text) ==
  LET r == ParseValue(text, 1) IN
  IF r.ok /\ SkipWs(text, r.next) = Len(text) + 1
    THEN [ok |-> TRUE, val |-> r.val]
    ELSE [ok |-> FALSE, val |-> Undefined]

(***************************************************************************)
(* Conversions the handlers apply to body fields.                          *)
(***************************************************************************)
DigitChar(d) == SubSeq("0123456789", d + 1, d + 1)

RECURSIVE NumToStr(_)
NumToStr(n) == IF n < 10 THEN DigitChar(n) ELSE NumToStr(n \div 10) \o DigitChar(n % 10)

\* x.toString() for the values a JSON body can hold; also `${x}`, which
\* renders undefined and null too.
ToStr(x) ==
  CASE x.t = "string"    -> x.s
    [] x.t = "number"    -> NumToStr(x.n)
    [] x.t = "boolean"   -> IF x.b THEN "true" ELSE "false"
    [] x.t = "undefined" -> "undefined"
    [] x.t = "null"      -> "null"
    [] x.t = "array"     -> IF x.a = <<>> THEN "" ELSE "[array]"
    [] OTHER             -> "[object Object]"

\* s.trim()
RECURSIVE TrimLeft(_), TrimRight(_)
TrimLeft(s) ==
  IF Len(s) > 0 /\ Ch(s, 1) \in WhiteSpace THEN TrimLeft(SubSeq(s, 2, Len(s))) ELSE s
TrimRight(s) ==
  IF Len(s) > 0 /\ Ch(s, Len(s)) \in WhiteSpace THEN TrimRight(SubSeq(s, 1, Len(s) - 1)) ELSE s
Trim(s) == TrimRight(TrimLeft(s))

\* body.a || body.b, where a body that was not parsed is undefined.
Field2(body, a, b) == Or(Prop(body, a), Prop(body, b))

\* src/index.js: (req.body && (req.body.a || req.body.b))?.toString()
\* The result is a string, or "" standing for undefined: both are falsy and
\* nothing else is done with a falsy result.
FieldIndex(body, a, b) ==
  LET x == IF Truthy(body) THEN Field2(body, a, b) ELSE body IN
  IF x.t \in {"undefined", "null"} THEN "" ELSE ToStr(x)

\* the fixed variant: (body.a || body.b || "").toString(), body = req.body || {}
FieldFixed(body, a, b) ==
  LET o == IF Truthy(body) THEN body ELSE Obj(<<>>) IN
  ToStr(Or(Field2(o, a, b), Str("")))

(***************************************************************************)
(* Bounds of the model.                                                    *)
(***************************************************************************)
\* Requests served in one run (one after the other in Spec).
MaxRequests == 2
\* Accounts the identity lookup can return.
MaxUsers == 2
\* Math.random() is sampled as k / RandDenom.
RandDenom == 1000

(***************************************************************************)
(* Configuration: the environment of the process and the Node runtime.     *)
(* It is read at each request and never written.                           *)
(***************************************************************************)
FullEnv ==
  [SUPABASE_URL |-> Str("https://db.example/"), SERVICE_ROLE_KEY |-> Str("srk"),
   SUPABASE_SERVICE_ROLE |-> Undefined, SUPABASE_KEY |-> Undefined,
   EMAIL_USER |-> Str("bot@mail.example"), EMAIL_PASS |-> Str("pw"),
   DELETE_TOKEN |-> Str("tok")]

Envs ==
  { FullEnv,
    [FullEnv EXCEPT !.SUPABASE_URL = Undefined],
    [FullEnv EXCEPT !.SERVICE_ROLE_KEY = Undefined, !.SUPABASE_SERVICE_ROLE = Str("srk")],
    [FullEnv EXCEPT !.EMAIL_PASS = Str("  ")],
    [FullEnv EXCEPT !.DELETE_TOKEN = Undefined] }

VARIABLES
  variant,             \* "index" (src/index.js) or "fixed" (src/unnamed/part_000)
  env,                 \* process.env
  globalFetch,         \* whether globalThis.fetch exists (Node 18+)
  nodeFetchInstalled,  \* whether import("node-fetch") resolves
  safeFetch,           \* the fixed variant's cached fetch implementation
  store,               \* rows of password_resets, as <<email, code>>
  members,             \* rows of room_members: <<room_id, user_id>> -> is_online
  req,                 \* the requests: one handler invocation per slot
  served               \* requests received so far

vars == <<variant, env, globalFetch, nodeFetchInstalled, safeFetch, store, members, req, served>>
config == <<variant, env, globalFetch, nodeFetchInstalled>>

\* the request slots of the run
Slots == DOMAIN req

\* The inputs a step draws from: the wide set when requests are served one
\* at a time, the narrow one (a representative of each outcome) when
\* several are in flight together.
Inputs(wide, narrow) == IF Cardinality(Slots) = 1 THEN wide ELSE narrow

\* process.env[name] ? process.env[name].trim() : undefined
safeEnv(name) == IF Truthy(env[name]) THEN Str(Trim(env[name].s)) ELSE Undefined

\* the fixed variant accepts three names for the service key
getServiceRoleKey ==
  Or(safeEnv("SUPABASE_SERVICE_ROLE"), Or(safeEnv("SERVICE_ROLE_KEY"), safeEnv("SUPABASE_KEY")))

\* !SUPABASE_URL || !SERVICE_ROLE_KEY, negated
SupabaseConfigured ==
  /\ Truthy(safeEnv("SUPABASE_URL"))
  /\ Truthy(IF variant = "index" THEN safeEnv("SERVICE_ROLE_KEY") ELSE getServiceRoleKey)

\* !EMAIL_USER || !EMAIL_PASS, negated
EmailConfigured == Truthy(safeEnv("EMAIL_USER")) /\ Truthy(safeEnv("EMAIL_PASS"))

(***************************************************************************)
(* Requests, outbound calls, answers and responses.                        *)
(***************************************************************************)
NoResp == [status |-> 0, success |-> FALSE, valid |-> FALSE, error |-> "", detail |-> "", data |-> ""]

Idle ==
  [ep |-> "none", pc |-> "idle", body |-> Undefined, hdr |-> Undefined, query |-> Undefined,
   email |-> "", code |-> "", new_password |-> "",
   userId |-> "", newPublicId |-> Undefined, newUrl |-> Undefined, oldPublicId |-> Undefined,
   room_id |-> Undefined, user_id |-> Undefined, publicId |-> Undefined,
   calls |-> <<>>, answers |-> <<>>, resp |-> NoResp]

Fresh(ep, body) == [Idle EXCEPT !.ep = ep, !.body = body, !.pc = "run"]

\* res.status(status).json({error, detail}) and return
Respond(q, status, error, detail) ==
  [q EXCEPT !.pc = "done",
            !.resp = [NoResp EXCEPT !.status = status, !.error = error, !.detail = detail]]

\* res.json({success: true, ...}) and return
Succeed(q, valid, data) ==
  [q EXCEPT !.pc = "done",
            !.resp = [NoResp EXCEPT !.status = 200, !.success = TRUE, !.valid = valid, !.data = data]]

\* the outer catch: res.status(500).json({error: "Server error", detail: err.message})
Caught(q, message) == Respond(q, 500, "Server error", message)

\* an outbound call is issued and the handler awaits its answer at pc
Call(q, op, args, pc) ==
  [q EXCEPT !.pc = pc, !.calls = Append(@, [op |-> op, args |-> args])]

\* the answer the await resumes with is recorded
Heard(q, ans) == [q EXCEPT !.answers = Append(@, ans)]

\* resp.ok
Ok(status) == status >= 200 /\ status <= 299

Threw(msg) == [threw |-> TRUE, status |-> 0, text |-> msg]
Answered(status, text) == [threw |-> FALSE, status |-> status, text |-> text]

FetchAnswers(statuses, texts) ==
  {Answered(st, tx) : st \in statuses, tx \in texts} \cup {Threw("fetch failed")}

kv(k, v) == [k |-> k, val |-> v]

(***************************************************************************)
(* The first outbound call of the three reset handlers, and getFetch.      *)
(***************************************************************************)
FirstCall(q) ==
  CASE q.ep = "send-code"      -> Call(q, "store.insert", <<q.email, q.code>>, "await_insert")
    [] q.ep = "verify-code"    -> Call(q, "rpc.verify", <<q.email, q.code>>, "await_rpc")
    [] q.ep = "reset-password" -> Call(q, "rpc.verify", <<q.email, q.code>>, "await_verify")

\* src/index.js imports node-fetch statically; the fixed variant awaits
\* getFetch(), which returns the cached implementation or imports one.
Fetching(q) ==
  IF variant = "index" \/ safeFetch THEN FirstCall(q) ELSE [q EXCEPT !.pc = "await_import"]

\* a getFetch whose first import fills the cache but fails its caller
GetFetchImported_ColdStartFails(r) ==
  /\ req[r].pc = "await_import"
  /\ safeFetch' = (safeFetch \/ nodeFetchInstalled)
  /\ req' = [req EXCEPT ![r] = Caught(@, "Cannot find package 'node-fetch'")]
  /\ UNCHANGED <<config, store, members, served>>

\* import("node-fetch") settles: the module is cached and the call is made,
\* or the import error is thrown into the handler's catch.
GetFetchImported(r) ==
  /\ req[r].pc = "await_import"
  /\ IF nodeFetchInstalled
       THEN /\ safeFetch' = TRUE
            /\ req' = [req EXCEPT ![r] = FirstCall(@)]
       ELSE /\ safeFetch' = safeFetch
            /\ req' = [req EXCEPT ![r] = Caught(@, "Cannot find package 'node-fetch'")]
  /\ UNCHANGED <<config, store, members, served>>

(***************************************************************************)
(* POST /send-code                                                         *)
(***************************************************************************)
\* Math.floor(100000 + Math.random() * 900000).toString()
\* a generator that scales the draw to 0..999999 and does not pad
GenCode_FromZero(k) == NumToStr((k * 1000000) \div RandDenom)

GenCode(k) == NumToStr(100000 + (k * 900000) \div RandDenom)

RandSamples == {0, RandDenom - 1}

SendCodeBodies ==
  { Undefined, Obj(<<>>),
    Obj(<<kv("email", Str("a@b.co"))>>),
    Obj(<<kv("user_email", Str("a@b.co"))>>),
    Obj(<<kv("email", Str(" a@b.co "))>>),
    Obj(<<kv("email", Str("   "))>>),
    Obj(<<kv("email", Str("")), kv("user_email", Str("   "))>>) }

SendCodeEmail(body) ==
  IF variant = "index"
    THEN FieldIndex(body, "email", "user_email")
    ELSE Trim(FieldFixed(body, "email", "user_email"))

SendCodeStart(q, k) ==
  IF q.email = "" THEN Respond(q, 400, "Email required", "")
  ELSE LET q1 == [q EXCEPT !.code = GenCode(k)] IN
       IF ~SupabaseConfigured
         THEN Respond(q1, 500, "Server misconfigured (missing supabase keys)", "")
         ELSE Fetching(q1)

\* a free slot takes the next request
Accepting(r) == req[r].pc = "idle" /\ served < MaxRequests

\* the response is sent and the handler has returned: nothing of the
\* request is kept
Complete(r) ==
  /\ req[r].pc = "done"
  /\ req' = [req EXCEPT ![r] = Idle]
  /\ UNCHANGED <<config, safeFetch, store, members, served>>

\* a send-code request arrives with one of the bodies, and Math.random()
\* returns k / RandDenom for one of the samples k
SendCodeDraw(r, bodies, samples) ==
  /\ Accepting(r)
  /\ \E body \in bodies, k \in samples :
       req' = [req EXCEPT ![r] =
                 SendCodeStart([Fresh("send-code", body) EXCEPT !.email = SendCodeEmail(body)], k)]
  /\ served' = served + 1
  /\ UNCHANGED <<config, safeFetch, store, members>>

SendCode(r) ==
  SendCodeDraw(r, Inputs(SendCodeBodies,
                         {Obj(<<kv("email", Str(e))>>) : e \in {"a@b.co", "c@d.co"}}),
               RandSamples)

\* the same request under every value Math.random() can return
SendCodeAnyDraw(r) ==
  SendCodeDraw(r, {Obj(<<kv("email", Str("a@b.co"))>>)}, 0..(RandDenom - 1))

InsertTexts == {"[{\"id\":7}]", "{\"message\":\"denied\"}"}

\* mutant: a failed insert is reported only after the mail went out
SendCodeInserted_NoAbort(q, ans) ==
  IF ans.threw THEN Caught(q, ans.text)
  ELSE IF ~EmailConfigured
    THEN Respond(q, 500, "Server misconfigured (missing email creds)", "")
  ELSE Call(q, "mail.verify", <<>>, "await_mailverify")

SendCodeInserted(q, ans) ==
  IF ans.threw THEN Caught(q, ans.text)
  ELSE IF ~Ok(ans.status) THEN Respond(q, 500, "Failed to store reset code", ans.text)
  ELSE IF ~EmailConfigured
    THEN Respond(q, 500, "Server misconfigured (missing email creds)", "")
  ELSE Call(q, "mail.verify", <<>>, "await_mailverify")

\* the store answers the insert: with a 2xx status the row is in the table
SendCodeInsertReturns(r) ==
  /\ req[r].pc = "await_insert"
  /\ \E ans \in Inputs(FetchAnswers({201, 500}, InsertTexts),
                      {Answered(201, "[{\"id\":7}]"), Answered(500, "{\"message\":\"denied\"}")}) :
       /\ req' = [req EXCEPT ![r] = SendCodeInserted(Heard(@, ans), ans)]
       /\ store' = IF ~ans.threw /\ Ok(ans.status)
                     THEN store \cup {req[r].calls[Len(req[r].calls)].args}
                     ELSE store
  /\ UNCHANGED <<config, safeFetch, members, served>>

MailAnswers == {Answered(250, ""), Threw("Invalid login")}

\* mutant: a failed dispatch rolls the stored row back
SendCodeTransportVerified_Rollback(q, ans) ==
  IF ans.threw
    THEN Respond(Call(q, "store.delete", <<q.email, q.code>>, "done"),
                 500, "Email provider authentication failed", ans.text)
    ELSE Call(q, "mail.send", <<q.email, q.code>>, "await_sendmail")

\* a handler that generates the code again for the mail
SendCodeTransportVerified_FreshCode(q, ans) ==
  IF ans.threw
    THEN Respond(q, 500, "Email provider authentication failed", ans.text)
    ELSE Call(q, "mail.send", <<q.email, GenCode(0)>>, "await_sendmail")

SendCodeTransportVerified(q, ans) ==
  IF ans.threw
    THEN Respond(q, 500, "Email provider authentication failed", ans.text)
    ELSE Call(q, "mail.send", <<q.email, q.code>>, "await_sendmail")

SendCodeMailVerifyReturns(r) ==
  /\ req[r].pc = "await_mailverify"
  /\ \E ans \in MailAnswers :
       req' = [req EXCEPT ![r] = SendCodeTransportVerified(Heard(@, ans), ans)]
  /\ UNCHANGED <<config, safeFetch, store, members, served>>

\* mutant: the outcome of sendMail is not looked at
SendCodeMailSent_Unchecked(q, ans) == Succeed(q, FALSE, "")

SendCodeMailSent(q, ans) ==
  IF ans.threw
    THEN Respond(q, 500, "Failed to send email", ans.text)
    ELSE Succeed(q, FALSE, "")

SendCodeSendMailReturns(r) ==
  /\ req[r].pc = "await_sendmail"
  /\ \E ans \in MailAnswers :
       req' = [req EXCEPT ![r] = SendCodeMailSent(Heard(@, ans), ans)]
  /\ UNCHANGED <<config, safeFetch, store, members, served>>

(***************************************************************************)
(* POST /verify-code                                                       *)
(***************************************************************************)
\* mutant: only the boolean is accepted
ValidIndex_BooleanOnly(text) ==
  LET p == JSONParse(text) IN p.ok /\ IsTrue(p.val)

\* src/index.js: result = JSON.parse(text), or text when that throws;
\* valid = result === true || result === "true" || result === JSON.stringify(true)
ValidIndex(text) ==
  LET p == JSONParse(text)
      result == IF p.ok THEN p.val ELSE Str(text)
  IN IsTrue(result) \/ IsStr(result, "true") \/ IsStr(result, ToStr(Bool(TRUE)))

\* the fixed variant: parsed === true || parsed === "true", and
\* rpcText === "true" when JSON.parse throws
ValidFixed(text) ==
  LET p == JSONParse(text) IN
  IF p.ok THEN IsTrue(p.val) \/ IsStr(p.val, "true") ELSE text = "true"

RpcTexts ==
  { "true", "false", "\"true\"", " true\n", "\"TRUE\"", "\"\\\"true\\\"\"", "True",
    "", "1", "[true]", "{\"valid\":true}", "null" }

CodeBodies ==
  { Undefined, Obj(<<>>),
    Obj(<<kv("email", Str("a@b.co")), kv("code", Str("123456"))>>),
    Obj(<<kv("user_email", Str(" a@b.co ")), kv("user_code", Num(123456))>>),
    Obj(<<kv("email", Str("a@b.co"))>>),
    Obj(<<kv("code", Str("123456"))>>),
    Obj(<<kv("email", Str("   ")), kv("code", Str("123456"))>>),
    Obj(<<kv("email", Str("a@b.co")), kv("code", Str("  "))>>) }

\* the fields a handler of the running variant reads from the body
ReadField(body, a, b, trim) ==
  IF variant = "index" THEN FieldIndex(body, a, b)
  ELSE IF trim THEN Trim(FieldFixed(body, a, b))
  ELSE FieldFixed(body, a, b)

\* mutant: only the email is required
VerifyCodeStart_EmailOnly(q) ==
  IF q.email = "" THEN Respond(q, 400, "Email and code required", "")
  ELSE IF ~SupabaseConfigured
    THEN Respond(q, 500, "Server misconfigured (missing supabase keys)", "")
  ELSE Fetching(q)

VerifyCodeStart(q) ==
  IF q.email = "" \/ q.code = "" THEN Respond(q, 400, "Email and code required", "")
  ELSE IF ~SupabaseConfigured
    THEN Respond(q, 500, "Server misconfigured (missing supabase keys)", "")
  ELSE Fetching(q)

VerifyCode(r) ==
  /\ Accepting(r)
  /\ \E body \in Inputs(CodeBodies,
                       {Obj(<<kv("email", Str("a@b.co")), kv("code", Str(c))>>) :
                          c \in {"123456", "000000"}}) :
       req' = [req EXCEPT ![r] =
                 VerifyCodeStart([Fresh("verify-code", body) EXCEPT
                    !.email = ReadField(body, "email", "user_email", TRUE),
                    !.code = ReadField(body, "code", "user_code", TRUE)])]
  /\ served' = served + 1
  /\ UNCHANGED <<config, safeFetch, store, members>>

\* a verify-code that consumes the code it found valid
VerifyCodeAnswered_Consumes(q, ans) ==
  IF ans.threw THEN Caught(q, ans.text)
  ELSE IF ~Ok(ans.status) THEN Respond(q, 500, "RPC failed", ans.text)
  ELSE IF ValidFixed(ans.text)
    THEN Call(Succeed(q, TRUE, ""), "store.insert", <<q.email, "">>, "done")
  ELSE Succeed(q, FALSE, "")

VerifyCodeAnswered(q, ans) ==
  IF ans.threw THEN Caught(q, ans.text)
  ELSE IF ~Ok(ans.status) THEN Respond(q, 500, "RPC failed", ans.text)
  ELSE Succeed(q, IF variant = "index" THEN ValidIndex(ans.text) ELSE ValidFixed(ans.text), "")

VerifyCodeRpcReturns(r) ==
  /\ req[r].pc = "await_rpc"
  /\ \E ans \in Inputs(FetchAnswers({200, 500}, RpcTexts),
                      {Answered(200, "true"), Answered(200, "false")}) :
       req' = [req EXCEPT ![r] = VerifyCodeAnswered(Heard(@, ans), ans)]
  /\ UNCHANGED <<config, safeFetch, store, members, served>>

(***************************************************************************)
(* POST /reset-password                                                    *)
(***************************************************************************)
\* a reset-password that accepts the JSON boolean only
VerifiedIndex_BooleanOnly(text) ==
  LET p == JSONParse(text) IN p.ok /\ IsTrue(p.val)

\* src/index.js: verified is set when JSON.parse gives true or "true", or,
\* when it throws, when the text is "true"
VerifiedIndex(text) ==
  LET p == JSONParse(text) IN
  IF p.ok THEN IsTrue(p.val) \/ IsStr(p.val, "true") ELSE text = "true"

\* the fixed variant: the same test, written as an assignment
VerifiedFixed(text) ==
  LET p == JSONParse(text) IN
  IF p.ok THEN IsTrue(p.val) \/ IsStr(p.val, "true") ELSE text = "true"

Verified(text) == IF variant = "index" THEN VerifiedIndex(text) ELSE VerifiedFixed(text)

ResetBodies ==
  { Undefined, Obj(<<>>),
    Obj(<<kv("email", Str("a@b.co")), kv("new_password", Str("S3cret")), kv("code", Str("123456"))>>),
    Obj(<<kv("user_email", Str(" a@b.co ")), kv("password", Str("S3cret")), kv("user_code", Num(123456))>>),
    Obj(<<kv("email", Str("a@b.co")), kv("code", Str("123456"))>>),
    Obj(<<kv("email", Str("a@b.co")), kv("new_password", Str("S3cret"))>>),
    Obj(<<kv("new_password", Str("S3cret")), kv("code", Str("123456"))>>),
    Obj(<<kv("email", Str("a@b.co")), kv("new_password", Str("   ")), kv("code", Str("123456"))>>),
    Obj(<<kv("email", Str("   ")), kv("new_password", Str("S3cret")), kv("code", Str("123456"))>>) }

ResetPasswordStart(q) ==
  IF q.email = "" \/ q.new_password = "" \/ q.code = ""
    THEN Respond(q, 400, "email, new_password and code are required", "")
  ELSE IF ~SupabaseConfigured
    THEN Respond(q, 500, "Server misconfigured (missing supabase keys)", "")
  ELSE Fetching(q)

ResetPassword(r) ==
  /\ Accepting(r)
  /\ \E body \in Inputs(ResetBodies,
                       {Obj(<<kv("email", Str("a@b.co")), kv("new_password", Str("S3cret")),
                              kv("code", Str(c))>>) : c \in {"123456", "000000"}}) :
       req' = [req EXCEPT ![r] =
                 ResetPasswordStart([Fresh("reset-password", body) EXCEPT
                    !.email = ReadField(body, "email", "user_email", TRUE),
                    !.new_password = ReadField(body, "new_password", "password", FALSE),
                    !.code = ReadField(body, "code", "user_code", TRUE)])]
  /\ served' = served + 1
  /\ UNCHANGED <<config, safeFetch, store, members>>

ResetVerifyTexts == {"true", "\"true\"", " true\n", "false", "True", "\"\\\"true\\\"\"", ""}

\* mutant: the status of the verification answer is not looked at
ResetPasswordVerified_StatusIgnored(q, ans) ==
  IF ans.threw THEN Caught(q, ans.text)
  ELSE IF ~Verified(ans.text)
    THEN Respond(q, 400, "Invalid or expired code", ans.text)
  ELSE Call(q, "auth.lookup", <<q.email>>, "await_users")

ResetPasswordVerified(q, ans) ==
  IF ans.threw THEN Caught(q, ans.text)
  ELSE IF ~Ok(ans.status) \/ ~Verified(ans.text)
    THEN Respond(q, 400, "Invalid or expired code", ans.text)
  ELSE Call(q, "auth.lookup", <<q.email>>, "await_users")

ResetPasswordVerifyReturns(r) ==
  /\ req[r].pc = "await_verify"
  /\ \E ans \in Inputs(FetchAnswers({200, 500}, ResetVerifyTexts),
                      {Answered(200, "true"), Answered(200, "false"), Answered(500, "true"),
                       Threw("fetch failed")}) :
       req' = [req EXCEPT ![r] = ResetPasswordVerified(Heard(@, ans), ans)]
  /\ UNCHANGED <<config, safeFetch, store, members, served>>

\* The lists of accounts a lookup can return: runs of ids, up or down.
RECURSIVE Run(_, _)
Run(i, j) == IF i = j THEN <<i>> ELSE <<i>> \o Run(IF i < j THEN i + 1 ELSE i - 1, j)

UserLists == {<<>>} \cup {Run(i, j) : i \in 1..MaxUsers, j \in 1..MaxUsers}

RECURSIVE UsersJSON(_)
UsersJSON(ids) ==
  IF ids = <<>> THEN ""
  ELSE "{\"id\":" \o NumToStr(Head(ids)) \o "}"
       \o (IF Len(ids) > 1 THEN "," ELSE "") \o UsersJSON(Tail(ids))

ListJSON(ids) == "[" \o UsersJSON(ids) \o "]"
Wrapped(key, ids) == "{\"" \o key \o "\":" \o ListJSON(ids) \o "}"

UsersTexts ==
  {ListJSON(l) : l \in UserLists}
    \cup {Wrapped("users", l) : l \in UserLists}
    \cup {Wrapped("data", l) : l \in UserLists}
    \cup { "{}", "null", "oops", "{\"users\":\"x\"}", "{\"users\":[null]}",
           "{\"users\":[{\"id\":1}],\"data\":[{\"id\":2}]}" }

\* Array.isArray(p) ? p : (p.users || p.data || null) in src/index.js,
\* (p.data || p.users || []) in the fixed variant.  p is not null here.
UsersArrayIndex(p) ==
  IF p.t = "array" THEN p ELSE Or(Prop(p, "users"), Or(Prop(p, "data"), Null))

\* a normalization that knows only the users key
UsersArrayFixed_UsersOnly(p) ==
  IF p.t = "array" THEN p ELSE Or(Prop(p, "users"), Arr(<<>>))

UsersArrayFixed(p) ==
  IF p.t = "array" THEN p ELSE Or(Prop(p, "data"), Or(Prop(p, "users"), Arr(<<>>)))

UsersArray(p) == IF variant = "index" THEN UsersArrayIndex(p) ELSE UsersArrayFixed(p)

\* mutant: the length of the list is not looked at
NoUsers_LengthIgnored(u) == ~Truthy(u)

\* !usersArray || usersArray.length === 0
NoUsers(u) == ~Truthy(u) \/ (Prop(u, "length").t = "number" /\ Prop(u, "length").n = 0)

\* mutant: the last element is taken
First_Last(u) ==
  CASE u.t = "array"  -> IF u.a = <<>> THEN Undefined ELSE u.a[Len(u.a)]
    [] u.t = "string" -> IF u.s = "" THEN Undefined ELSE Str(Ch(u.s, Len(u.s)))
    [] OTHER          -> Undefined

\* usersArray[0]
First(u) ==
  CASE u.t = "array"  -> IF u.a = <<>> THEN Undefined ELSE u.a[1]
    [] u.t = "string" -> IF u.s = "" THEN Undefined ELSE Str(Ch(u.s, 1))
    [] u.t = "object" -> Prop(u, "0")
    [] OTHER          -> Undefined

\* reading a property of null or undefined throws a TypeError
Nullish(x) == x.t \in {"undefined", "null"}

ResetPasswordResolve(q, p) ==
  IF p.t /= "array" /\ Nullish(p)
    THEN Caught(q, "Cannot read properties of null")
  ELSE LET u == UsersArray(p) IN
    IF NoUsers(u) THEN Respond(q, 404, "User not found in Supabase Auth", "")
    ELSE IF Nullish(First(u)) THEN Caught(q, "Cannot read properties of undefined (reading 'id')")
    ELSE Call(q, "auth.update", <<ToStr(Prop(First(u), "id")), q.new_password>>, "await_update")

ResetPasswordLookedUp(q, ans) ==
  IF ans.threw THEN Caught(q, ans.text)
  ELSE IF variant = "fixed" /\ ~Ok(ans.status)
    THEN Respond(q, 500, "Failed to fetch user", ans.text)
  ELSE LET p == JSONParse(ans.text) IN
    IF ~p.ok
      THEN Respond(q, 500,
                   IF variant = "index" THEN "Failed to parse Supabase user response"
                                        ELSE "Failed to parse user response",
                   ans.text)
      ELSE ResetPasswordResolve(q, p.val)

ResetPasswordUsersReturns(r) ==
  /\ req[r].pc = "await_users"
  /\ \E ans \in Inputs(FetchAnswers({200, 500}, UsersTexts),
                      {Answered(200, ListJSON(<<1>>)), Answered(200, ListJSON(<<>>))}) :
       req' = [req EXCEPT ![r] = ResetPasswordLookedUp(Heard(@, ans), ans)]
  /\ UNCHANGED <<config, safeFetch, store, members, served>>

ResetPasswordUpdated(q, ans) ==
  IF ans.threw THEN Caught(q, ans.text)
  ELSE IF ~Ok(ans.status) THEN Respond(q, 500, "Failed to update password", ans.text)
  ELSE Succeed(q, FALSE, "")

ResetPasswordUpdateReturns(r) ==
  /\ req[r].pc = "await_update"
  /\ \E ans \in Inputs(FetchAnswers({200, 500}, {"{\"msg\":\"weak\"}"}),
                      {Answered(200, "{}"), Answered(500, "{\"msg\":\"weak\"}")}) :
       req' = [req EXCEPT ![r] = ResetPasswordUpdated(Heard(@, ans), ans)]
  /\ UNCHANGED <<config, safeFetch, store, members, served>>

(***************************************************************************)
(* POST /avatar/update  (src/routes/avatar.js)                             *)
(***************************************************************************)
\* a === b on values read from JSON: primitives by value, objects and
\* arrays by reference, and two parsed values are never the same object
StrictEq(a, b) ==
  /\ a.t = b.t
  /\ CASE a.t = "string"  -> a.s = b.s
       [] a.t = "number"  -> a.n = b.n
       [] a.t = "boolean" -> a.b = b.b
       [] a.t \in {"undefined", "null"} -> TRUE
       [] OTHER -> FALSE

\* headerKey.startsWith("Bearer ") ? headerKey.replace("Bearer ", "").trim() : headerKey
ProvidedKey(headerKey) ==
  IF HasAt(headerKey, 1, "Bearer ")
    THEN Trim(SubSeq(headerKey, 8, Len(headerKey)))
    ELSE headerKey

\* (req.get("apikey") || req.get("x-apikey") || req.get("authorization")) || ""
HeaderKey(hdr) ==
  ToStr(Or(Or(Prop(hdr, "apikey"), Or(Prop(hdr, "x-apikey"), Prop(hdr, "authorization"))), Str("")))

AvatarHeaders ==
  { Obj(<<>>),
    Obj(<<kv("apikey", Str("srk"))>>),
    Obj(<<kv("apikey", Str("guess"))>>),
    Obj(<<kv("x-apikey", Str("srk"))>>),
    Obj(<<kv("authorization", Str("Bearer srk"))>>),
    Obj(<<kv("authorization", Str("Bearer guess"))>>) }

AvatarBodies ==
  { Undefined, Obj(<<>>),
    Obj(<<kv("user_id", Str("u1")), kv("new_public_id", Str("avatars/new")),
          kv("new_url", Str("https://img/new"))>>),
    Obj(<<kv("id", Num(7)), kv("public_id", Str("avatars/new")),
          kv("avatar_url", Str("https://img/new"))>>),
    Obj(<<kv("user_id", Str("u1")), kv("new_public_id", Str("avatars/new"))>>),
    Obj(<<kv("new_public_id", Str("avatars/new")), kv("new_url", Str("https://img/new"))>>) }

\* body = req.body || {}
BodyOrEmpty(body) == IF Truthy(body) THEN body ELSE Obj(<<>>)

\* (body.user_id || body.userId || body.id)?.toString(); "" stands for undefined
AvatarUserId(body) ==
  LET x == Or(Prop(body, "user_id"), Or(Prop(body, "userId"), Prop(body, "id"))) IN
  IF Nullish(x) THEN "" ELSE ToStr(x)

AvatarNewPublicId(body) ==
  Or(Prop(body, "new_public_id"),
     Or(Prop(body, "newPublicId"), Or(Prop(body, "public_id"), Prop(body, "avatar_public_id"))))

AvatarNewUrl(body) ==
  Or(Prop(body, "new_url"), Or(Prop(body, "newUrl"), Prop(body, "avatar_url")))

\* the profile fetch: the global fetch is looked up, then the URL is built
\* from SUPABASE_URL; either can throw into the handler's catch
AvatarFetchProfile(q) ==
  IF ~globalFetch THEN Respond(q, 500, "fetch is not defined", "")
  ELSE IF ~Truthy(safeEnv("SUPABASE_URL"))
    THEN Respond(q, 500, "Cannot read properties of undefined (reading 'replace')", "")
  ELSE Call(q, "profiles.get", <<q.userId>>, "await_profile")

\* a secret check that lets a request without a secret through
AvatarUpdateStart_AbsentAccepted(q) ==
  LET key == safeEnv("SERVICE_ROLE_KEY")
      provided == ProvidedKey(HeaderKey(q.hdr))
  IN IF ~Truthy(key)
       THEN Respond(q, 500, "Server misconfigured (missing SERVICE_ROLE_KEY)", "")
     ELSE IF provided /= "" /\ provided /= key.s
       THEN Respond(q, 403, "Unauthorized. Provide service apikey header.", "")
     ELSE LET body == BodyOrEmpty(q.body)
              q1 == [q EXCEPT !.userId = AvatarUserId(body),
                              !.newPublicId = AvatarNewPublicId(body),
                              !.newUrl = AvatarNewUrl(body)]
          IN IF q1.userId = "" \/ ~Truthy(q1.newPublicId) \/ ~Truthy(q1.newUrl)
               THEN Respond(q1, 400, "Missing fields. Required: user_id, new_public_id, new_url", "")
               ELSE AvatarFetchProfile(q1)

AvatarUpdateStart(q) ==
  LET key == safeEnv("SERVICE_ROLE_KEY")
      provided == ProvidedKey(HeaderKey(q.hdr))
  IN IF ~Truthy(key)
       THEN Respond(q, 500, "Server misconfigured (missing SERVICE_ROLE_KEY)", "")
     ELSE IF provided = "" \/ provided /= key.s
       THEN Respond(q, 403, "Unauthorized. Provide service apikey header.", "")
     ELSE LET body == BodyOrEmpty(q.body)
              q1 == [q EXCEPT !.userId = AvatarUserId(body),
                              !.newPublicId = AvatarNewPublicId(body),
                              !.newUrl = AvatarNewUrl(body)]
          IN IF q1.userId = "" \/ ~Truthy(q1.newPublicId) \/ ~Truthy(q1.newUrl)
               THEN Respond(q1, 400, "Missing fields. Required: user_id, new_public_id, new_url", "")
               ELSE AvatarFetchProfile(q1)

AvatarUpdate(r) ==
  /\ Accepting(r)
  /\ \E hdr \in AvatarHeaders, body \in AvatarBodies :
       req' = [req EXCEPT ![r] =
                 AvatarUpdateStart([Fresh("avatar/update", body) EXCEPT !.hdr = hdr])]
  /\ served' = served + 1
  /\ UNCHANGED <<config, safeFetch, store, members>>

ProfileTexts ==
  { "[]", "oops", "{\"avatar_public_id\":\"avatars/old\"}",
    "[{\"avatar_public_id\":\"avatars/old\"}]",
    "[{\"avatar_public_id\":\"avatars/new\"}]",
    "[{\"avatar_public_id\":null}]" }

\* existing = Array.isArray(p) && p.length ? p[0] : null, with p = [] when
\* the text does not parse; oldPublicId = existing?.avatar_public_id || null
OldPublicId(text) ==
  LET p == JSONParse(text)
      existing == IF p.ok /\ p.val.t = "array" /\ p.val.a /= <<>> THEN p.val.a[1] ELSE Null
  IN IF Nullish(existing) THEN Null ELSE Or(Prop(existing, "avatar_public_id"), Null)

AvatarWrite(q) ==
  Call(q, "profiles.update", <<q.userId, ToStr(q.newUrl), ToStr(q.newPublicId)>>, "await_patch")

\* a handler that reads the profile whatever the status of the answer
AvatarProfileFetched_StatusIgnored(q, ans) ==
  IF ans.threw THEN Respond(q, 500, ans.text, "")
  ELSE LET q1 == [q EXCEPT !.oldPublicId = OldPublicId(ans.text)] IN
       IF Truthy(q1.oldPublicId) /\ ~StrictEq(q1.oldPublicId, q1.newPublicId)
         THEN Call(q1, "cloudinary.destroy", <<ToStr(q1.oldPublicId)>>, "await_destroy")
         ELSE AvatarWrite(q1)

\* a handler that deletes whatever old image the profile names
AvatarProfileFetched_AlwaysDeletes(q, ans) ==
  IF ans.threw THEN Respond(q, 500, ans.text, "")
  ELSE IF ~Ok(ans.status) THEN Respond(q, 500, "Failed to fetch profile", ans.text)
  ELSE LET q1 == [q EXCEPT !.oldPublicId = OldPublicId(ans.text)] IN
       IF Truthy(q1.oldPublicId)
         THEN Call(q1, "cloudinary.destroy", <<ToStr(q1.oldPublicId)>>, "await_destroy")
         ELSE AvatarWrite(q1)

AvatarProfileFetched(q, ans) ==
  IF ans.threw THEN Respond(q, 500, ans.text, "")
  ELSE IF ~Ok(ans.status) THEN Respond(q, 500, "Failed to fetch profile", ans.text)
  ELSE LET q1 == [q EXCEPT !.oldPublicId = OldPublicId(ans.text)] IN
       IF Truthy(q1.oldPublicId) /\ ~StrictEq(q1.oldPublicId, q1.newPublicId)
         THEN Call(q1, "cloudinary.destroy", <<ToStr(q1.oldPublicId)>>, "await_destroy")
         ELSE AvatarWrite(q1)

AvatarProfileReturns(r) ==
  /\ req[r].pc = "await_profile"
  /\ \E ans \in FetchAnswers({200, 500}, ProfileTexts) :
       req' = [req EXCEPT ![r] = AvatarProfileFetched(Heard(@, ans), ans)]
  /\ UNCHANGED <<config, safeFetch, store, members, served>>

DestroyAnswers ==
  { Answered(200, "{\"result\":\"ok\"}"), Answered(200, "{\"result\":\"not found\"}"),
    Threw("cloudinary unreachable") }

\* a handler that gives up when the delete throws
AvatarDestroyReturns_FailsRequest(r) ==
  /\ req[r].pc = "await_destroy"
  /\ \E ans \in DestroyAnswers :
       req' = [req EXCEPT ![r] =
                 IF ans.threw THEN Respond(Heard(@, ans), 500, ans.text, "")
                 ELSE AvatarWrite(Heard(@, ans))]
  /\ UNCHANGED <<config, safeFetch, store, members, served>>

\* the delete's outcome is logged at most; the write follows either way
AvatarDestroyReturns(r) ==
  /\ req[r].pc = "await_destroy"
  /\ \E ans \in DestroyAnswers :
       req' = [req EXCEPT ![r] = AvatarWrite(Heard(@, ans))]
  /\ UNCHANGED <<config, safeFetch, store, members, served>>

AvatarWritten(q, ans) ==
  IF ans.threw THEN Respond(q, 500, ans.text, "")
  ELSE IF ~Ok(ans.status) THEN Respond(q, 500, "Failed to update profile", ans.text)
  ELSE Succeed(q, FALSE, ans.text)

AvatarPatchReturns(r) ==
  /\ req[r].pc = "await_patch"
  /\ \E ans \in FetchAnswers({200, 500}, {"[{\"id\":\"u1\"}]"}) :
       req' = [req EXCEPT ![r] = AvatarWritten(Heard(@, ans), ans)]
  /\ UNCHANGED <<config, safeFetch, store, members, served>>

(***************************************************************************)
(* POST /rooms/join and /rooms/leave  (src/routes/avatar.js, second half)  *)
(***************************************************************************)
RoomBodies ==
  { Undefined, Obj(<<>>),
    Obj(<<kv("room_id", Str("lobby")), kv("user_id", Str("u1"))>>),
    Obj(<<kv("room_id", Str("lobby"))>>),
    Obj(<<kv("user_id", Str("u1"))>>),
    Obj(<<kv("room_id", Str("")), kv("user_id", Str("u1"))>>) }

\* const { room_id, user_id } = req.body stands before the try: with no
\* parsed body it throws out of the handler.  Whether the framework then
\* answers 500 itself or the request is left without a response depends on
\* the framework's version; handled picks one.
RoomsStart(q, handled) ==
  IF Nullish(q.body)
    THEN [q EXCEPT !.pc = "done",
                   !.resp = [NoResp EXCEPT !.status = IF handled THEN 500 ELSE 0,
                                           !.error = "uncaught TypeError"]]
  ELSE LET q1 == [q EXCEPT !.room_id = Prop(q.body, "room_id"),
                           !.user_id = Prop(q.body, "user_id")]
       IN IF ~Truthy(q1.room_id) \/ ~Truthy(q1.user_id)
            THEN Respond(q1, 400, "Missing room_id or user_id", "")
            ELSE Call(q1, "upsert_room_member",
                      <<ToStr(q1.room_id), ToStr(q1.user_id),
                        IF q1.ep = "rooms/join" THEN "true" ELSE "false">>,
                      "await_query")

RoomsJoin(r) ==
  /\ Accepting(r)
  /\ \E body \in Inputs(RoomBodies,
                       {Obj(<<kv("room_id", Str("lobby")), kv("user_id", Str(u))>>) :
                          u \in {"u1", "u2"}}),
        handled \in BOOLEAN :
       req' = [req EXCEPT ![r] = RoomsStart(Fresh("rooms/join", body), handled)]
  /\ served' = served + 1
  /\ UNCHANGED <<config, safeFetch, store, members>>

RoomsLeave(r) ==
  /\ Accepting(r)
  /\ \E body \in Inputs(RoomBodies,
                       {Obj(<<kv("room_id", Str("lobby")), kv("user_id", Str(u))>>) :
                          u \in {"u1", "u2"}}),
        handled \in BOOLEAN :
       req' = [req EXCEPT ![r] = RoomsStart(Fresh("rooms/leave", body), handled)]
  /\ served' = served + 1
  /\ UNCHANGED <<config, safeFetch, store, members>>

\* upsert_room_member($1, $2, flag) as the database runs it
Upsert(rows, room, user, flag) ==
  [p \in DOMAIN rows \cup {<<room, user>>} |->
     IF p = <<room, user>> THEN flag ELSE rows[p]]

\* a leave that passes true as join does
RoomsQueryExecuted_AlwaysOnline(r) ==
  /\ req[r].pc = "await_query"
  /\ members' = Upsert(members, ToStr(req[r].room_id), ToStr(req[r].user_id), TRUE)
  /\ req' = [req EXCEPT ![r].pc = "await_result"]
  /\ UNCHANGED <<config, safeFetch, store, served>>

\* the database executes the statement
RoomsQueryExecuted(r) ==
  /\ req[r].pc = "await_query"
  /\ members' = Upsert(members, ToStr(req[r].room_id), ToStr(req[r].user_id),
                       req[r].ep = "rooms/join")
  /\ req' = [req EXCEPT ![r].pc = "await_result"]
  /\ UNCHANGED <<config, safeFetch, store, served>>

\* pool.query resolves
RoomsQueryReturns(r) ==
  /\ req[r].pc = "await_result"
  /\ req' = [req EXCEPT ![r] = Succeed(Heard(@, Answered(200, "")), FALSE, "")]
  /\ UNCHANGED <<config, safeFetch, store, members, served>>

\* pool.query rejects before the statement ran: the catch answers 500
RoomsQueryThrows(r) ==
  /\ req[r].pc = "await_query"
  /\ req' = [req EXCEPT ![r] =
               Respond(Heard(@, Threw("connection refused")), 500, "connection refused", "")]
  /\ UNCHANGED <<config, safeFetch, store, members, served>>

(***************************************************************************)
(* POST /delete-image  (src/cloudinary-delete-route.js)                    *)
(***************************************************************************)
\* const DELETE_TOKEN = process.env.DELETE_TOKEN || "", read when the module loads
DELETE_TOKEN == ToStr(Or(env["DELETE_TOKEN"], Str("")))

DeleteHeaders == {Obj(<<>>), Obj(<<kv("x-delete-token", Str("tok"))>>),
                  Obj(<<kv("x-delete-token", Str("guess"))>>)}

DeleteBodies ==
  { Undefined, Obj(<<>>),
    Obj(<<kv("public_id", Str("avatars/old"))>>),
    Obj(<<kv("token", Str("tok")), kv("public_id", Str("avatars/old"))>>),
    Obj(<<kv("token", Str("tok"))>>) }

DeleteQueries == {Obj(<<>>), Obj(<<kv("public_id", Str("avatars/q"))>>)}

\* a route that is open when no token is configured
DeleteImageStart_OpenWhenUnset(q) ==
  LET body == BodyOrEmpty(q.body)
      token == Or(Prop(q.hdr, "x-delete-token"), Or(Prop(body, "token"), Str("")))
  IN IF DELETE_TOKEN /= "" /\ (~Truthy(token) \/ ~StrictEq(token, Str(DELETE_TOKEN)))
       THEN Respond(q, 403, "Invalid or missing delete token", "")
     ELSE LET q1 == [q EXCEPT !.publicId = Or(Prop(body, "public_id"), Prop(q.query, "public_id"))]
          IN IF ~Truthy(q1.publicId)
               THEN Respond(q1, 400, "public_id required in body or query", "")
               ELSE Call(q1, "cloudinary.destroy", <<ToStr(q1.publicId)>>, "await_delete")

DeleteImageStart(q) ==
  LET body == BodyOrEmpty(q.body)
      token == Or(Prop(q.hdr, "x-delete-token"), Or(Prop(body, "token"), Str("")))
  IN IF DELETE_TOKEN = ""
       THEN Respond(q, 500, "Server not configured with DELETE_TOKEN", "")
     ELSE IF ~Truthy(token) \/ ~StrictEq(token, Str(DELETE_TOKEN))
       THEN Respond(q, 403, "Invalid or missing delete token", "")
     ELSE LET q1 == [q EXCEPT !.publicId = Or(Prop(body, "public_id"), Prop(q.query, "public_id"))]
          IN IF ~Truthy(q1.publicId)
               THEN Respond(q1, 400, "public_id required in body or query", "")
               ELSE Call(q1, "cloudinary.destroy", <<ToStr(q1.publicId)>>, "await_delete")

DeleteImage(r) ==
  /\ Accepting(r)
  /\ \E hdr \in DeleteHeaders, body \in DeleteBodies, query \in DeleteQueries :
       req' = [req EXCEPT ![r] =
                 DeleteImageStart([Fresh("delete-image", body) EXCEPT !.hdr = hdr, !.query = query])]
  /\ served' = served + 1
  /\ UNCHANGED <<config, safeFetch, store, members>>

DeleteImageDestroyed(q, ans) ==
  IF ans.threw THEN Respond(q, 500, ans.text, "") ELSE Succeed(q, FALSE, ans.text)

DeleteImageDestroyReturns(r) ==
  /\ req[r].pc = "await_delete"
  /\ \E ans \in DestroyAnswers \cup {Answered(200, "{\"result\":\"not found\"}")} :
       req' = [req EXCEPT ![r] = DeleteImageDestroyed(Heard(@, ans), ans)]
  /\ UNCHANGED <<config, safeFetch, store, members, served>>

(***************************************************************************)
(* Specifications.                                                         *)
(***************************************************************************)
\* src/index.js imports node-fetch statically: it runs only where the
\* package is installed.  The runtime is varied under the full environment.
InitConfig ==
  /\ variant \in {"index", "fixed"}
  /\ env \in Envs
  /\ globalFetch \in BOOLEAN
  /\ nodeFetchInstalled \in BOOLEAN
  /\ variant = "index" => nodeFetchInstalled
  /\ env /= FullEnv => globalFetch /\ nodeFetchInstalled
  /\ globalFetch => nodeFetchInstalled

InitState(slots) ==
  /\ safeFetch = globalFetch
  /\ store = {}
  /\ members = <<>>
  /\ req = [r \in slots |-> Idle]
  /\ served = 0

\* Spec: the requests are served one at a time, on every endpoint.
Init == InitConfig /\ InitState({1})

Next ==
  \E r \in Slots :
    \/ SendCode(r)
    \/ SendCodeInsertReturns(r)
    \/ SendCodeMailVerifyReturns(r)
    \/ SendCodeSendMailReturns(r)
    \/ VerifyCode(r)
    \/ VerifyCodeRpcReturns(r)
    \/ ResetPassword(r)
    \/ ResetPasswordVerifyReturns(r)
    \/ ResetPasswordUsersReturns(r)
    \/ ResetPasswordUpdateReturns(r)
    \/ GetFetchImported(r)
    \/ AvatarUpdate(r)
    \/ AvatarProfileReturns(r)
    \/ AvatarDestroyReturns(r)
    \/ AvatarPatchReturns(r)
    \/ RoomsJoin(r)
    \/ RoomsLeave(r)
    \/ RoomsQueryExecuted(r)
    \/ RoomsQueryReturns(r)
    \/ RoomsQueryThrows(r)
    \/ DeleteImage(r)
    \/ DeleteImageDestroyReturns(r)
    \/ Complete(r)

Spec == Init /\ [][Next]_vars

\* SpecReset: two requests of the reset flow in flight together, their
\* steps interleaved in every order, under the full environment.
Pair == {1, 2}

InitReset == InitConfig /\ env = FullEnv /\ InitState(Pair)

NextReset ==
  \E r \in Slots :
    \/ SendCode(r)
    \/ SendCodeInsertReturns(r)
    \/ SendCodeMailVerifyReturns(r)
    \/ SendCodeSendMailReturns(r)
    \/ VerifyCode(r)
    \/ VerifyCodeRpcReturns(r)
    \/ ResetPassword(r)
    \/ ResetPasswordVerifyReturns(r)
    \/ ResetPasswordUsersReturns(r)
    \/ ResetPasswordUpdateReturns(r)
    \/ GetFetchImported(r)
    \/ Complete(r)

SpecReset == InitReset /\ [][NextReset]_vars

\* SpecRooms: join and leave requests in flight together, one per slot,
\* the database applying their statements in every order.
RoomSlots == 1..MaxRequests

InitRooms ==
  /\ InitConfig
  /\ variant = "index" /\ env = FullEnv /\ globalFetch
  /\ InitState(RoomSlots)

NextRooms ==
  \E r \in Slots :
    \/ RoomsJoin(r)
    \/ RoomsLeave(r)
    \/ RoomsQueryExecuted(r)
    \/ RoomsQueryReturns(r)
    \/ RoomsQueryThrows(r)

SpecRooms == InitRooms /\ [][NextRooms]_vars

\* SpecCode: one send-code request under every draw of the random source.
InitCode == InitConfig /\ env = FullEnv /\ InitState({1})

NextCode ==
  \E r \in Slots :
    \/ SendCodeAnyDraw(r)
    \/ GetFetchImported(r)
    \/ SendCodeInsertReturns(r)
    \/ SendCodeMailVerifyReturns(r)
    \/ SendCodeSendMailReturns(r)

SpecCode == InitCode /\ [][NextCode]_vars
(***************************************************************************)
(* What the claims speak of.                                               *)
(***************************************************************************)
HasCall(q, op) == \E i \in 1..Len(q.calls) : q.calls[i].op = op

CallCount(q, op) == Cardinality({i \in 1..Len(q.calls) : q.calls[i].op = op})

\* the i-th outbound call of q was answered with a response (not a throw)
Returned(q, i) == Len(q.answers) >= i /\ ~q.answers[i].threw

Returned2xx(q, i) == Returned(q, i) /\ Ok(q.answers[i].status)

\* a body that says true: the JSON boolean true or the JSON string "true"
TrueBody(text) == Trim(text) \in {"true", "\"true\""}

\* the verification RPC of q answered 2xx with a body that says true
CodeVerified(q) == Returned2xx(q, 1) /\ TrueBody(q.answers[1].text)

ResetEndpoints == {"send-code", "verify-code", "reset-password"}

\* C1: in a reset-password request the user lookup and the password
\* overwrite are issued only after the request's own verification RPC
\* answered with a 2xx status and a body that says true; when the RPC
\* answered anything else the request has ended with status 400 "Invalid or
\* expired code" and neither call was issued.
C1_OverwriteOnlyIfVerified ==
  \A r \in Slots :
    LET q == req[r] IN
    q.ep = "reset-password" =>
      /\ (HasCall(q, "auth.lookup") \/ HasCall(q, "auth.update")) => CodeVerified(q)
      /\ (Returned(q, 1) /\ ~CodeVerified(q)) =>
            /\ q.pc = "done"
            /\ q.resp.status = 400
            /\ q.resp.error = "Invalid or expired code"
            /\ ~HasCall(q, "auth.lookup")
            /\ ~HasCall(q, "auth.update")

\* a reset-password request whose RPC answered 200 with the body false
C1_Witness ==
  \E r \in Slots :
    /\ req[r].ep = "reset-password"
    /\ req[r].pc = "done"
    /\ Returned2xx(req[r], 1)
    /\ req[r].answers[1].text = "false"
    /\ req[r].resp.status = 400

IsPrefix(s, t) == Len(s) <= Len(t) /\ SubSeq(t, 1, Len(s)) = s

\* the handler of q is past its synchronous start and not inside getFetch
Running(q) == q.pc \notin {"idle", "run", "await_import"}

\* two requests that carry the same input: endpoint, body and random draw
SameRequest(a, b) == a.ep = b.ep /\ a.body = b.body /\ a.code = b.code

\* C2: a request of the reset flow is decided by its own body, the
\* configuration and the answers its own outbound calls received, never by
\* an earlier or concurrent request.  Of two requests with the same input,
\* served by the same process in any interleaving: when they heard the same
\* answers they are at the same point with the same calls and the same
\* response; when one heard a prefix of the other's answers it has not
\* ended and its calls are a prefix of the other's.  In particular a
\* reset-password whose own verification call did not answer true is
\* refused with 400 and issues neither lookup nor overwrite, although a
\* verify-code for the same (email, code) pair answered valid: true.
C2_Stateless ==
  /\ \A a, b \in Slots :
        ( /\ SameRequest(req[a], req[b])
          /\ Running(req[a]) /\ Running(req[b])
          /\ IsPrefix(req[a].answers, req[b].answers) )
        => IF req[a].answers = req[b].answers
             THEN req[a] = req[b]
             ELSE req[a].pc /= "done" /\ IsPrefix(req[a].calls, req[b].calls)
  /\ \A a, b \in Slots :
        ( /\ req[a].ep = "verify-code" /\ req[a].pc = "done" /\ req[a].resp.valid
          /\ req[b].ep = "reset-password"
          /\ req[b].email = req[a].email /\ req[b].code = req[a].code
          /\ Len(req[b].answers) >= 1 /\ ~CodeVerified(req[b]) )
        => /\ req[b].pc = "done"
           /\ req[b].resp.status \in {400, 500}
           /\ ~req[b].resp.success
           /\ ~HasCall(req[b], "auth.lookup")
           /\ ~HasCall(req[b], "auth.update")

\* two reset-password requests with the same input and the same answers
\* have both succeeded, the second on the implementation the first cached
C2_Witness ==
  /\ variant = "fixed" /\ ~globalFetch /\ safeFetch
  /\ req[1].ep = "reset-password" /\ req[1].pc = "done" /\ req[1].resp.success
  /\ 2 \in Slots
  /\ SameRequest(req[1], req[2]) /\ req[2].pc = "done"
  /\ req[1].answers = req[2].answers

\* a verify-code answered valid: true and a reset-password for the same
\* pair was refused on its own verification
C2_VerifiedThenRefused ==
  \E a, b \in Slots :
    /\ req[a].ep = "verify-code" /\ req[a].pc = "done" /\ req[a].resp.valid
    /\ req[b].ep = "reset-password" /\ req[b].pc = "done" /\ req[b].resp.status = 400
    /\ req[b].email = req[a].email /\ req[b].code = req[a].code
    /\ Len(req[b].answers) = 1 /\ ~CodeVerified(req[b])

\* C3: in send-code, when the store insert answered with a non-2xx status
\* the request has ended with status 500 and the store's body as detail,
\* and no email operation was attempted.
C3_InsertFailureAborts ==
  \A r \in Slots :
    LET q == req[r] IN
    (q.ep = "send-code" /\ Returned(q, 1) /\ ~Ok(q.answers[1].status)) =>
      /\ q.pc = "done"
      /\ q.resp.status = 500
      /\ q.resp.detail = q.answers[1].text
      /\ ~HasCall(q, "mail.verify")
      /\ ~HasCall(q, "mail.send")

C3_Witness ==
  \E r \in Slots :
    /\ req[r].ep = "send-code"
    /\ req[r].pc = "done"
    /\ Returned(req[r], 1)
    /\ req[r].answers[1].status = 500
    /\ req[r].resp.detail = "{\"message\":\"denied\"}"

\* the email dispatch of a send-code request failed after its insert succeeded
DispatchFailed(q) ==
  /\ q.ep = "send-code"
  /\ Returned2xx(q, 1)
  /\ \E i \in 2..Len(q.answers) : q.answers[i].threw

\* C4 (state part): after a successful insert and a failed dispatch the
\* request has ended with status 500, its only call to the store is the
\* insert, and the row it inserted is in the store.
C4_State ==
  \A r \in Slots :
    LET q == req[r] IN
    DispatchFailed(q) =>
      /\ q.pc = "done"
      /\ q.resp.status = 500
      /\ ~q.resp.success
      /\ \A i \in 1..Len(q.calls) :
           q.calls[i].op \in {"store.insert", "mail.verify", "mail.send"}
      /\ CallCount(q, "store.insert") = 1
      /\ <<q.email, q.code>> \in store

\* C4: in send-code, when the insert succeeded and the dispatch then fails,
\* the request reports failure (500) and makes no further call to the
\* store; no step of any request removes or changes a stored row.
C4_NoRollback == [](C4_State) /\ [][store \subseteq store']_vars

C4_Witness ==
  \E r \in Slots :
    /\ DispatchFailed(req[r])
    /\ req[r].pc = "done"
    /\ Len(req[r].answers) = 3
    /\ <<req[r].email, req[r].code>> \in store

\* the insert answered 2xx and both mail operations completed
StoredAndSent(q) ==
  /\ Len(q.answers) = 3
  /\ Returned2xx(q, 1)
  /\ ~q.answers[2].threw
  /\ ~q.answers[3].threw
  /\ HasCall(q, "store.insert") /\ HasCall(q, "mail.verify") /\ HasCall(q, "mail.send")

\* C5: a send-code request answers {success:true} only if its insert
\* returned 2xx and its email dispatch completed without error; every other
\* outcome is a response with an error status.
C5_SuccessOnlyIfBoth ==
  \A r \in Slots :
    LET q == req[r] IN
    (q.ep = "send-code" /\ q.pc = "done") =>
      /\ q.resp.success <=> StoredAndSent(q)
      /\ q.resp.success => q.resp.status = 200
      /\ ~q.resp.success => q.resp.status >= 400

C5_Witness ==
  \E r \in Slots :
    /\ req[r].ep = "send-code"
    /\ req[r].pc = "done"
    /\ req[r].resp.success
    /\ StoredAndSent(req[r])
    /\ <<req[r].email, req[r].code>> \in store
\* the names under which each required body field of an endpoint is read
RequiredFields(ep) ==
  CASE ep = "send-code"      -> {{"email", "user_email"}}
    [] ep = "verify-code"    -> {{"email", "user_email"}, {"code", "user_code"}}
    [] ep = "reset-password" -> {{"email", "user_email"}, {"code", "user_code"},
                                 {"new_password", "password"}}
    [] ep = "avatar/update"  -> {{"user_id", "userId", "id"},
                                 {"new_public_id", "newPublicId", "public_id", "avatar_public_id"},
                                 {"new_url", "newUrl", "avatar_url"}}
    [] ep \in {"rooms/join", "rooms/leave"} -> {{"room_id"}, {"user_id"}}
    [] OTHER -> {}

\* the request came without one of the required fields
FieldMissing(q) ==
  \E names \in RequiredFields(q.ep) :
    Nullish(q.body) \/ \A n \in names : Nullish(Prop(q.body, n))

\* the secret an avatar/update request presents is the configured key
SecretMatches(q) ==
  /\ Truthy(safeEnv("SERVICE_ROLE_KEY"))
  /\ ProvidedKey(HeaderKey(q.hdr)) = safeEnv("SERVICE_ROLE_KEY").s

FieldBlank(q) ==
  /\ q.ep \in ResetEndpoints
  /\ ~Nullish(q.body)
  /\ \E names \in RequiredFields(q.ep) :
       \E n \in names :
         LET x == Prop(q.body, n) IN
         /\ x.t = "string" /\ x.s /= "" /\ Trim(x.s) = ""
         /\ \A m \in names \ {n} : ~Truthy(Prop(q.body, m))

\* C7 as stated: in the three reset phases a required field that is empty
\* after trimming is rejected with status 400 before any outbound call.
C7_BlankFieldRejected ==
  \A r \in Slots :
    LET q == req[r] IN
    FieldBlank(q) => q.pc = "done" /\ q.resp.status = 400 /\ q.calls = <<>>

\* C8: when the verification RPC answers with a 2xx status, verify-code
\* answers 200 {success:true, valid}, and valid is true exactly when the
\* body is the JSON boolean true or the JSON string "true".
C8_ValidNormalized ==
  \A r \in Slots :
    LET q == req[r] IN
    (q.ep = "verify-code" /\ Returned2xx(q, 1)) =>
      /\ q.pc = "done"
      /\ q.resp.status = 200
      /\ q.resp.success
      /\ q.resp.valid <=> TrueBody(q.answers[1].text)

\* the RPC answered with the quoted string and verify-code said valid
C8_Witness ==
  \E r \in Slots :
    /\ req[r].ep = "verify-code"
    /\ req[r].pc = "done"
    /\ Returned2xx(req[r], 1)
    /\ req[r].answers[1].text = "\"true\""
    /\ req[r].resp.valid

\* lookup answers that hold no account
NoUserTexts == {ListJSON(<<>>), Wrapped("users", <<>>), Wrapped("data", <<>>), "{}"}

\* lookup answers that hold the accounts ids, bare or wrapped
ListTexts(ids) == {ListJSON(ids), Wrapped("users", ids), Wrapped("data", ids)}

\* the code of a reset-password request is verified and its lookup
\* answered 2xx with one of texts
LookupAnswered(q, texts) ==
  /\ q.ep = "reset-password"
  /\ CodeVerified(q)
  /\ Returned2xx(q, 2)
  /\ q.answers[2].text \in texts

\* C9: in reset-password, when the code is verified and the lookup returns
\* no user, the request ends with status 404 and no password overwrite is
\* issued.
C9_NoUser404 ==
  \A r \in Slots :
    LET q == req[r] IN
    LookupAnswered(q, NoUserTexts) =>
      q.pc = "done" /\ q.resp.status = 404 /\ ~HasCall(q, "auth.update")

C9_Witness ==
  \E r \in Slots :
    /\ LookupAnswered(req[r], {Wrapped("users", <<>>)})
    /\ req[r].pc = "done"
    /\ req[r].resp.status = 404

AmbiguousLists == {l \in UserLists : Len(l) > 1}

\* C10 as stated: when the lookup returns more than one account the
\* request ends with status 404 and no password overwrite is issued.
C10_Original ==
  \A r \in Slots :
    LET q == req[r] IN
    \A l \in AmbiguousLists :
      LookupAnswered(q, ListTexts(l)) =>
        q.pc = "done" /\ q.resp.status = 404 /\ ~HasCall(q, "auth.update")

\* C10 as amended: when the lookup returns more than one account the
\* request does not report "user not found": it issues the password
\* overwrite for the first account of the list as returned, and answers by
\* that call's outcome.
C10_FirstOfManyOverwritten ==
  \A r \in Slots :
    LET q == req[r] IN
    \A l \in AmbiguousLists :
      LookupAnswered(q, ListTexts(l)) =>
        /\ Len(q.calls) = 3
        /\ q.calls[3] = [op |-> "auth.update", args |-> <<NumToStr(l[1]), q.new_password>>]
        /\ q.pc = "done" => q.resp.status \in {200, 500}
        /\ (q.pc = "done" /\ Returned2xx(q, 3)) => q.resp.success

C10_Witness ==
  \E r \in Slots :
    /\ LookupAnswered(req[r], ListTexts(<<2, 1>>))
    /\ req[r].pc = "done"
    /\ req[r].resp.success
    /\ req[r].calls[3].args[1] = "2"
\* the reset-password requests whose lookup (their second call) was answered
LookedUp == {r \in Slots : req[r].ep = "reset-password" /\ Returned(req[r], 2)}

\* the non-empty lists of accounts
SomeUsers == UserLists \ {<<>>}

\* the texts that carry the list l: bare, under users, under data
Carrying(l) == {ListJSON(l), Wrapped("users", l), Wrapped("data", l)}

BothKeys == "{\"users\":[{\"id\":1}],\"data\":[{\"id\":2}]}"

\* the account a normalized list u resolves to: the id the PUT is addressed to
Account(u) ==
  IF NoUsers(u) THEN "none"
  ELSE IF Nullish(First(u)) THEN "TypeError"
  ELSE ToStr(Prop(First(u), "id"))

\* C11 as stated: the lookup result is normalized to a list, and for every
\* lookup response both server variants resolve the same account.
C11_Original ==
  \A r \in LookedUp :
    LET p == JSONParse(req[r].answers[2].text) IN
    (p.ok /\ ~Nullish(p.val)) =>
       Account(UsersArrayIndex(p.val)) = Account(UsersArrayFixed(p.val))

\* C11: when the lookup answers 2xx with a non-empty list, bare or wrapped
\* under exactly one of the keys users and data, the password overwrite is
\* issued and addressed to the id of the first element of the list in the
\* order returned, in either variant.  When the object carries both keys
\* the variants differ: src/index.js resolves from users, the fixed variant
\* from data.
C11_FirstOfListResolved ==
  \A r \in LookedUp :
    LET q == req[r]
        ans == q.answers[2] IN
    Ok(ans.status) =>
      /\ \A l \in SomeUsers :
            ans.text \in Carrying(l) =>
              /\ Len(q.calls) >= 3
              /\ q.calls[3].op = "auth.update"
              /\ q.calls[3].args[1] = NumToStr(l[1])
      /\ ans.text = BothKeys =>
            /\ Len(q.calls) >= 3
            /\ q.calls[3].op = "auth.update"
            /\ q.calls[3].args[1] = (IF variant = "index" THEN "1" ELSE "2")

\* the list <<2, 1>> came wrapped under data and the overwrite went to 2
C11_Witness ==
  \E r \in LookedUp :
    /\ Ok(req[r].answers[2].status)
    /\ req[r].answers[2].text = Wrapped("data", <<2, 1>>)
    /\ Len(req[r].calls) = 3
    /\ req[r].calls[3].args[1] = "2"
\* the outbound calls to the store, the verification RPC and the identity service
UpstreamOps == {"store.insert", "rpc.verify", "auth.lookup", "auth.update"}

\* C12: in the reset flow a non-2xx answer of a call to the store, the
\* verification RPC or the identity service ends the request with status
\* 500 and the answer's raw body as detail, never with 400 or 404.
C12_Non2xxIs500 ==
  \A r \in Slots :
    LET q == req[r] IN
    q.ep \in ResetEndpoints =>
      \A i \in 1..Len(q.answers) :
        (q.calls[i].op \in UpstreamOps /\ Returned(q, i) /\ ~Ok(q.answers[i].status)) =>
          /\ q.pc = "done"
          /\ q.resp.status = 500
          /\ q.resp.detail = q.answers[i].text
ResetOps == UpstreamOps \cup {"mail.verify", "mail.send"}

\* the i-th call of q failed: it threw or was answered non-2xx
Failed(q, i) ==
  /\ Len(q.answers) >= i
  /\ q.answers[i].threw \/ ~Ok(q.answers[i].status)

\* each outbound operation is issued at most once in a request
C13_IssuedOnce ==
  \A r \in Slots :
    req[r].ep \in ResetEndpoints =>
      \A op \in ResetOps : CallCount(req[r], op) <= 1

\* once a call has failed, it was the request's last call
C13_FailureIsTerminal ==
  \A r \in Slots :
    req[r].ep \in ResetEndpoints =>
      \A i \in 1..Len(req[r].answers) :
        Failed(req[r], i) => (Len(req[r].calls) = i /\ req[r].pc = "done")

\* C13: no retries.  Within one request of the reset flow each outbound
\* operation is issued at most once, and once one of them has failed
\* (non-2xx or thrown) no further outbound call is issued for the request.
C13_NoRetries == C13_IssuedOnce /\ C13_FailureIsTerminal
\* the calls of a verify-code request: none, or the verification RPC alone
C14_State ==
  \A r \in Slots :
    req[r].ep = "verify-code" =>
      /\ Len(req[r].calls) <= 1
      /\ \A i \in 1..Len(req[r].calls) : req[r].calls[i].op = "rpc.verify"

\* C14: verify-code does not mutate state.  A verify-code request issues at
\* most one outbound call, the verification RPC, never a store insert, a
\* user lookup, a password overwrite or an email, and no step of it changes
\* the stored reset codes or the room memberships.
C14_VerifyCodeReadOnly ==
  /\ [](C14_State)
  /\ [][(\E r \in Slots : req'[r].ep = "verify-code" /\ req'[r] /= req[r])
          => (store' = store /\ members' = members)]_vars

\* a verify-code request ended valid with the RPC as its only call
C14_Witness ==
  \E r \in Slots :
    /\ req[r].ep = "verify-code"
    /\ req[r].resp.success /\ req[r].resp.valid
    /\ Len(req[r].calls) = 1
    /\ req[r].calls[1] = [op |-> "rpc.verify", args |-> <<"a@b.co", "123456">>]
\* the key the server holds for avatar/update
ServerKey == safeEnv("SERVICE_ROLE_KEY")

SecretHeaders == {"apikey", "x-apikey", "authorization"}

\* no header of q carries the server's key, bare or after "Bearer "
SecretWrong(q) ==
  \A h \in SecretHeaders :
    LET v == Prop(q.hdr, h) IN
    \/ Nullish(v)
    \/ ~Truthy(ServerKey)
    \/ v.s \notin {ServerKey.s, "Bearer " \o ServerKey.s}

AvatarRequests == {r \in Slots : req[r].ep = "avatar/update"}

\* C15 as stated: an avatar/update request whose secret is absent or
\* differs from the server's key ends with status 403 and no call.
C15_Original ==
  \A r \in AvatarRequests :
    SecretWrong(req[r]) =>
      req[r].pc = "done" /\ req[r].resp.status = 403 /\ req[r].calls = <<>>

\* C15: an avatar/update request whose presented secret is absent or
\* differs from the server-held key issues no profile fetch, image delete
\* or profile write and never succeeds, whatever its body contains.  It is
\* answered 403 when the server holds a key, and 500 "Server misconfigured"
\* when SERVICE_ROLE_KEY is not set, a check that precedes the secret's.
C15_WrongSecretRefused ==
  \A r \in AvatarRequests :
    SecretWrong(req[r]) =>
      /\ req[r].pc = "done"
      /\ req[r].calls = <<>>
      /\ ~req[r].resp.success
      /\ req[r].resp.status = (IF Truthy(ServerKey) THEN 403 ELSE 500)

\* a complete body came with a wrong secret and was answered 403
C15_Witness ==
  \E r \in AvatarRequests :
    /\ Truthy(ServerKey)
    /\ Prop(req[r].hdr, "authorization") = Str("Bearer guess")
    /\ ~FieldMissing(req[r])
    /\ req[r].resp.status = 403
\* the avatar/update requests whose profile fetch was answered 2xx
ProfileFetched == {r \in AvatarRequests : Returned2xx(req[r], 1)}

\* C16: in avatar/update the image-host delete is issued exactly when the
\* fetched profile has an old image identifier that differs from the new
\* one; when the two are equal, when there is none, or when the profile was
\* not fetched, no delete is issued; the delete is issued once, for the old
\* identifier and never for the new one.
C16_DeleteOnlyOldAndDifferent ==
  \A r \in AvatarRequests :
    LET q == req[r] IN
    /\ CallCount(q, "cloudinary.destroy") <= 1
    /\ HasCall(q, "cloudinary.destroy") <=>
          ( /\ r \in ProfileFetched
            /\ Truthy(q.oldPublicId)
            /\ ~StrictEq(q.oldPublicId, q.newPublicId) )
    /\ \A i \in 1..Len(q.calls) :
          q.calls[i].op = "cloudinary.destroy" =>
            /\ q.calls[i].args = <<ToStr(q.oldPublicId)>>
            /\ q.calls[i].args[1] /= ToStr(q.newPublicId)

\* the profile named avatars/old, the request brought avatars/new, and the
\* delete went out for avatars/old
C16_Witness ==
  \E r \in ProfileFetched :
    /\ req[r].answers[1].text = "[{\"avatar_public_id\":\"avatars/old\"}]"
    /\ req[r].newPublicId = Str("avatars/new")
    /\ req[r].calls[2] = [op |-> "cloudinary.destroy", args |-> <<"avatars/old">>]

\* the profile already named the new image: the write follows the fetch
C16_SameIdSkipped ==
  \E r \in ProfileFetched :
    /\ req[r].answers[1].text = "[{\"avatar_public_id\":\"avatars/new\"}]"
    /\ req[r].newPublicId = Str("avatars/new")
    /\ req[r].calls[2].op = "profiles.update"
\* the avatar/update requests whose delete call (their second call) has
\* thrown or reported that nothing was deleted
DeleteFailed ==
  {r \in AvatarRequests :
     /\ Len(req[r].answers) >= 2
     /\ req[r].calls[2].op = "cloudinary.destroy"
     /\ req[r].answers[2].threw \/ req[r].answers[2].text /= "{\"result\":\"ok\"}"}

RoomEndpoints == {"rooms/join", "rooms/leave"}

\* the membership row a rooms request addresses, and the flag it writes
RowOf(q) == <<ToStr(q.room_id), ToStr(q.user_id)>>
FlagOf(q) == q.ep = "rooms/join"

\* the request passed the check of its two fields
RoomsValid(q) == q.ep \in RoomEndpoints /\ Truthy(q.room_id) /\ Truthy(q.user_id)

\* the database has applied the upsert of q
Applied(q) == RoomsValid(q) /\ (q.pc = "await_result" \/ q.resp.success)

\* a valid rooms request has issued one call, the upsert of its row and flag
C18_OneUpsert ==
  \A r \in Slots :
    RoomsValid(req[r]) =>
      req[r].calls = <<[op |-> "upsert_room_member",
                        args |-> <<RowOf(req[r])[1], RowOf(req[r])[2],
                                   IF FlagOf(req[r]) THEN "true" ELSE "false">>]>>

\* the memberships change only when the database applies the upsert of a
\* request: the row holds that request's flag afterwards, the other rows
\* are as before, and a row whose flag was already that value is unchanged
C18_LastWriteWins ==
  members' /= members =>
    \E r \in Slots :
      /\ RoomsValid(req[r]) /\ ~Applied(req[r]) /\ Applied(req'[r])
      /\ DOMAIN members' = DOMAIN members \cup {RowOf(req[r])}
      /\ members'[RowOf(req[r])] = FlagOf(req[r])
      /\ \A p \in DOMAIN members : p /= RowOf(req[r]) => members'[p] = members[p]

C18_Applies ==
  \A r \in Slots :
    (RoomsValid(req[r]) /\ ~Applied(req[r]) /\ Applied(req'[r])) =>
      /\ RowOf(req[r]) \in DOMAIN members'
      /\ members'[RowOf(req[r])] = FlagOf(req[r])
      /\ (RowOf(req[r]) \in DOMAIN members /\ members[RowOf(req[r])] = FlagOf(req[r]))
            => members' = members

C18_NeverDeleted == DOMAIN members \subseteq DOMAIN members'

\* slot a holds a join that succeeded, slot b a leave of the same row that
\* succeeded, and no other request has had an upsert applied to that row
JoinThenLeaveDone(a, b) ==
  /\ req[a].ep = "rooms/join" /\ req[a].resp.success
  /\ req[b].ep = "rooms/leave" /\ req[b].resp.success
  /\ RowOf(req[a]) = RowOf(req[b])
  /\ \A c \in Slots \ {a, b} : ~(Applied(req[c]) /\ RowOf(req[c]) = RowOf(req[a]))

\* C18: for any sequence or interleaving of rooms/join and rooms/leave
\* requests, each valid request performs one upsert of its (room_id,
\* user_id) row with is_online true (join) or false (leave); the flag of a
\* row is the value written by the last upsert applied to it; applying the
\* same operation again changes nothing; no row is ever deleted; and a
\* join that had succeeded before a leave of the same row arrived leaves
\* is_online false once the leave has succeeded.
C18_RoomsLastWriteWins ==
  /\ [](C18_OneUpsert)
  /\ [][C18_LastWriteWins /\ C18_Applies /\ C18_NeverDeleted]_vars
  /\ \A a, b \in RoomSlots :
        []( (req[a].ep = "rooms/join" /\ req[a].resp.success /\ req[b].pc = "idle")
            => [](JoinThenLeaveDone(a, b) => ~members[RowOf(req[a])]) )

\* a join and a leave of the same row are both in flight with their
\* upserts applied, and the row is offline: the leave was applied last
C18_Witness ==
  /\ 2 \in Slots
  /\ req[1].ep = "rooms/join" /\ req[1].pc = "await_result"
  /\ req[2].ep = "rooms/leave" /\ req[2].pc = "await_result"
  /\ RowOf(req[1]) = RowOf(req[2])
  /\ members[RowOf(req[1])] = FALSE
\* q was answered 500 with a message that names the configuration
MisconfiguredError(q) ==
  /\ q.pc = "done" /\ q.resp.status = 500
  /\ \/ HasAt(q.resp.error, 1, "Server misconfigured")
     \/ HasAt(q.resp.error, 1, "Server not configured")

\* the body of q carries every required field, none of them blank
WellFormed(q) == q.ep /= "none" /\ ~FieldMissing(q) /\ ~FieldBlank(q)

\* the reset flow without the store's URL or the service key
C19_Supabase ==
  \A r \in Slots :
    (req[r].ep \in ResetEndpoints /\ WellFormed(req[r]) /\ ~SupabaseConfigured) =>
      MisconfiguredError(req[r]) /\ req[r].calls = <<>>

\* send-code without email credentials: they are read after the insert
C19_Email ==
  \A r \in Slots :
    (req[r].ep = "send-code" /\ Returned2xx(req[r], 1) /\ ~EmailConfigured) =>
      /\ MisconfiguredError(req[r])
      /\ ~HasCall(req[r], "mail.verify") /\ ~HasCall(req[r], "mail.send")

\* avatar/update without the key that is also its shared secret
C19_AvatarKey ==
  \A r \in AvatarRequests :
    ~Truthy(ServerKey) => MisconfiguredError(req[r]) /\ req[r].calls = <<>>

\* avatar/update, authorized and complete, without the store's URL
C19_AvatarUrl ==
  \A r \in AvatarRequests :
    ( /\ ~SecretWrong(req[r]) /\ WellFormed(req[r])
      /\ ~Truthy(safeEnv("SUPABASE_URL")) ) =>
      MisconfiguredError(req[r]) /\ req[r].calls = <<>>

\* delete-image without the delete token
C19_DeleteToken ==
  \A r \in Slots :
    (req[r].ep = "delete-image" /\ DELETE_TOKEN = "") =>
      MisconfiguredError(req[r]) /\ req[r].calls = <<>>

\* C19: every required configuration value (store URL, service key, email
\* credentials, avatar shared secret, delete token) is checked by the
\* request that needs it, and when it is absent that request ends with a
\* "server misconfigured" error and no outbound call that uses the value.
C19_MisconfiguredAtRequest ==
  C19_Supabase /\ C19_Email /\ C19_AvatarKey /\ C19_AvatarUrl /\ C19_DeleteToken
\* the i-th call of q threw, and it is not the best-effort image delete of
\* avatar/update, whose exception the handler logs and passes over
ThrewInto(q, i) ==
  /\ Len(q.answers) >= i /\ q.answers[i].threw
  /\ ~(q.ep = "avatar/update" /\ q.calls[i].op = "cloudinary.destroy")

\* C20: every request to every endpoint ends with a response: a request
\* that has ended was answered by its handler, no exception left the handler
\* uncaught, and when an outbound call threw the request was answered 500
\* with the exception's message.
C20_EveryRequestAnswered ==
  \A r \in Slots :
    LET q == req[r] IN
    /\ q.pc = "done" => (q.resp.status /= 0 /\ q.resp.error /= "uncaught TypeError")
    /\ \A i \in 1..Len(q.answers) :
          ThrewInto(q, i) =>
            /\ q.pc = "done" /\ q.resp.status = 500
            /\ q.answers[i].text \in {q.resp.error, q.resp.detail}
DeleteRequests == {r \in Slots : req[r].ep = "delete-image"}

\* the token a delete-image request presents: the header's, else the body's
HeaderToken(q) == Prop(q.hdr, "x-delete-token")
BodyToken(q) == IF Nullish(q.body) THEN Undefined ELSE Prop(q.body, "token")
TokenRight(q) ==
  IF Truthy(HeaderToken(q)) THEN HeaderToken(q) = Str(DELETE_TOKEN)
  ELSE BodyToken(q) = Str(DELETE_TOKEN)

\* the public_id a delete-image request gives, in its body or its query
GivenPublicIds(q) ==
  {x \in {IF Nullish(q.body) THEN Undefined ELSE Prop(q.body, "public_id"),
          Prop(q.query, "public_id")} : Truthy(x)}

\* C21: in delete-image the image host's destroy is issued only when the
\* server holds a non-empty DELETE_TOKEN, the token presented in the
\* x-delete-token header or the body equals it, and a public_id is given,
\* and then for that public_id.  The checks are made in this order: without
\* a configured token the answer is 500, with a missing or wrong token 403,
\* without public_id 400, each with no destroy call.
C21_DestroyOnlyAuthorized ==
  \A r \in DeleteRequests :
    LET q == req[r] IN
    /\ \A i \in 1..Len(q.calls) :
          /\ q.calls[i].op = "cloudinary.destroy"
          /\ DELETE_TOKEN /= "" /\ TokenRight(q)
          /\ \E x \in GivenPublicIds(q) : q.calls[i].args = <<x.s>>
    /\ Len(q.calls) <= 1
    /\ DELETE_TOKEN = "" => (q.pc = "done" /\ q.resp.status = 500 /\ q.calls = <<>>)
    /\ (DELETE_TOKEN /= "" /\ ~TokenRight(q)) =>
          (q.pc = "done" /\ q.resp.status = 403 /\ q.calls = <<>>)
    /\ (DELETE_TOKEN /= "" /\ TokenRight(q) /\ GivenPublicIds(q) = {}) =>
          (q.pc = "done" /\ q.resp.status = 400 /\ q.calls = <<>>)

\* the token came in the body, the public_id in the query, and the destroy
\* went out for it
C21_Witness ==
  \E r \in DeleteRequests :
    /\ ~Truthy(HeaderToken(req[r]))
    /\ BodyToken(req[r]) = Str("tok")
    /\ GivenPublicIds(req[r]) = {Str("avatars/q")}
    /\ req[r].calls = <<[op |-> "cloudinary.destroy", args |-> <<"avatars/q">>]>>

\* a wrong header token is refused although the body carries the right one
C21_HeaderWins ==
  \E r \in DeleteRequests :
    /\ HeaderToken(req[r]) = Str("guess") /\ BodyToken(req[r]) = Str("tok")
    /\ req[r].resp.status = 403
\* the number a string of decimal digits denotes
RECURSIVE Value(_)
Value(str) ==
  IF str = "" THEN 0
  ELSE 10 * Value(SubSeq(str, 1, Len(str) - 1)) + DigitVal(Ch(str, Len(str)))

AllDigits(str) == \A i \in 1..Len(str) : Ch(str, i) \in Digits

\* the send-code requests that have generated their code
Generated == {r \in Slots : req[r].ep = "send-code" /\ req[r].code /= ""}

\* C22: for every value the random source returns in [0, 1), the code
\* send-code generates is an integer from 100000 to 999999: its string has
\* exactly six digits and no leading zero.
C22_SixDigits ==
  \A r \in Generated :
    LET code == req[r].code IN
    /\ Len(code) = 6
    /\ AllDigits(code)
    /\ Ch(code, 1) /= "0"
    /\ Value(code) >= 100000 /\ Value(code) <= 999999

\* the draw at the upper end of the range gave a code above 999000, and
\* it has been stored and mailed
C22_Witness ==
  \E r \in Generated :
    /\ req[r].code = GenCode(RandDenom - 1)
    /\ Value(req[r].code) > 999000
    /\ HasCall(req[r], "mail.send")
\* the requests whose verification RPC (their first call) was answered
RpcAnswered ==
  {r \in Slots : req[r].ep \in {"verify-code", "reset-password"} /\ Returned(req[r], 1)}

\* C23: the places that decide whether a code is valid agree.  For every
\* status and body the verification RPC returns, the four tests (verify-code
\* and reset-password, in src/index.js and in the fixed variant) give the
\* same verdict on the body; a finished verify-code reports valid exactly
\* when the status is 2xx and the body passes, and a reset-password goes on
\* to the user lookup exactly in that case.
C23_DecidersAgree ==
  \A r \in RpcAnswered :
    LET q == req[r]
        ans == q.answers[1]
        verdict == ValidIndex(ans.text) IN
    /\ ValidFixed(ans.text) = verdict
    /\ VerifiedIndex(ans.text) = verdict
    /\ VerifiedFixed(ans.text) = verdict
    /\ q.ep = "verify-code" =>
          (q.pc = "done" /\ (q.resp.valid <=> (Ok(ans.status) /\ verdict)))
    /\ q.ep = "reset-password" =>
          (HasCall(q, "auth.lookup") <=> (Ok(ans.status) /\ verdict))

\* the fixed variant's reset-password accepted the JSON string "true",
\* which its verify-code reports as valid too
C23_Witness ==
  \E r \in RpcAnswered :
    /\ variant = "fixed"
    /\ req[r].ep = "reset-password"
    /\ req[r].answers[1] = Answered(200, "\"true\"")
    /\ ValidFixed(req[r].answers[1].text)
    /\ HasCall(req[r], "auth.lookup")
SendCodeRequests == {r \in Slots : req[r].ep = "send-code"}

\* the calls of q with the operation op
CallsOf(q, op) == {i \in 1..Len(q.calls) : q.calls[i].op = op}

\* C24: a send-code request generates one code; it stores one row and sends
\* at most one mail, and the mail goes to the address and carries the code
\* of the row that the same request had stored before.  With several
\* send-code requests in flight no request mails the code or the address
\* of another.
C24_MailedCodeIsStoredCode ==
  /\ \A r \in SendCodeRequests :
        LET q == req[r] IN
        /\ CallCount(q, "store.insert") <= 1 /\ CallCount(q, "mail.send") <= 1
        /\ \A i \in CallsOf(q, "mail.send") :
              /\ q.calls[1].op = "store.insert"
              /\ Returned2xx(q, 1)
              /\ q.calls[i].args = q.calls[1].args
              /\ q.calls[i].args = <<q.email, q.code>>
              /\ q.calls[i].args \in store
  /\ \A a, b \in SendCodeRequests :
        \A i \in CallsOf(req[a], "mail.send") :
          /\ req[a].code /= req[b].code => req[a].calls[i].args[2] /= req[b].code
          /\ req[a].email /= req[b].email => req[a].calls[i].args[1] /= req[b].email

\* two send-code requests for different addresses drew different codes
\* and are both sending their mail, each with its own address and code
C24_Witness ==
  /\ 2 \in Slots
  /\ req[1].ep = "send-code" /\ req[2].ep = "send-code"
  /\ req[1].pc = "await_sendmail" /\ req[2].pc = "await_sendmail"
  /\ req[1].email /= req[2].email /\ req[1].code /= req[2].code
  /\ req[1].calls[3].args = <<req[1].email, req[1].code>>
  /\ req[2].calls[3].args = <<req[2].email, req[2].code>>
  /\ {req[1].calls[3].args, req[2].calls[3].args} \subseteq store
\* the operations of the calls of q, in the order they were issued
Ops(q) == [i \in 1..Len(q.calls) |-> q.calls[i].op]

\* the orders in which avatar/update issues its calls
AvatarOrders ==
  { <<>>,
    <<"profiles.get">>,
    <<"profiles.get", "cloudinary.destroy">>,
    <<"profiles.get", "cloudinary.destroy", "profiles.update">>,
    <<"profiles.get", "profiles.update">> }

\* C25: in avatar/update the outbound calls are issued in the order profile
\* fetch, then the optional image delete, then the profile write, and no
\* call follows the write; when the profile fetch is answered with a
\* non-2xx status the request ends with 500 and neither the delete nor the
\* write is issued.
C25_FetchDeleteWrite ==
  \A r \in AvatarRequests :
    LET q == req[r] IN
    /\ Ops(q) \in AvatarOrders
    /\ (Returned(q, 1) /\ ~Ok(q.answers[1].status)) =>
          /\ q.pc = "done" /\ q.resp.status = 500
          /\ Ops(q) = <<"profiles.get">>

\* fetch, delete and write were issued in this order and the request
\* succeeded
C25_Witness ==
  \E r \in AvatarRequests :
    /\ Ops(req[r]) = <<"profiles.get", "cloudinary.destroy", "profiles.update">>
    /\ Len(req[r].answers) = 3
    /\ req[r].resp.success

\* the profile fetch answered 500 with a profile in its body
C25_FetchRefused ==
  \E r \in AvatarRequests :
    /\ req[r].answers = <<Answered(500, "[{\"avatar_public_id\":\"avatars/old\"}]")>>
    /\ req[r].resp.status = 500
====
